---------------------------- MODULE Spec2Model ----------------------------
(***************************************************************************)
(* DocOutline: the heading detector (src/DocOutline/heading_detector.py),  *)
(* the outline extraction loop (src/pdf_extractor.py) and the two front    *)
(* ends that own the extractor (src/main.py, src/server.py).               *)
(*                                                                         *)
(* Texts are sequences of characters (one-character strings; a few         *)
(* characters that are not ASCII have a spelled-out name).  Python floats  *)
(* are binary64: every float operation of the code (+, *, /, comparisons)  *)
(* is computed here with its IEEE-754 round-to-nearest-even result, on     *)
(* fixed-point numbers held as base-2^15 limbs.                            *)
(***************************************************************************)
EXTENDS Integers, Sequences, FiniteSets, TLC

VARIABLES
    \* the front end's one PDFExtractor (main.py:42, server.py:19)
    font_sizes_seen,  \* HeadingDetector.font_sizes_seen of the extractor
    \* the batch front end (main.py)
    pc,               \* "idle": between documents; "pages": inside _extract_outline
    n_pages,          \* len(doc) of the open document
    page_num,         \* loop variable of _extract_outline
    span_count,       \* spans of the open document iterated so far
    outline,          \* the list _extract_outline is building
    last,             \* what the latest analyze_text call did
    results,          \* the result written for each document so far
    \* the same document given to a PDFExtractor() constructed for it alone
    ref_sizes,        \* that extractor's font_sizes_seen
    ref_outline,      \* the outline it builds
    \* the web front end (server.py): the requests being served
    tasks,            \* per request: where its upload_files call stands
    accesses,         \* the requests that touched font_sizes_seen, in order
    \* calls of the scorer and of the classifier on their own
    sample,           \* the arguments of _calculate_heading_confidence
    score,            \* what it added and what it returned
    switched,         \* the signal the latest change of the sample switched on
    before,           \* the confidence before that change
    call,             \* the arguments of _classify_heading_level
    call_level,       \* what it returned
    \* calls of the functions of a text on their own
    text_in,          \* the text
    text_out,         \* what the prefilter, the normalizer and the scorer make of it
    \* calls of _extract_title and _extract_outline on one document
    doc,              \* the document: its metadata and the lines of its first page
    title,            \* the result: the title and the outline
    \* one /upload request (server.py)
    files,            \* the files of the request
    file_num,         \* files the loop of upload_files has gone through
    responses         \* the results list of upload_files

batchVars == <<pc, n_pages, page_num, span_count, outline, last, results, ref_sizes,
               ref_outline>>
serverVars == <<tasks, accesses>>
scoreVars == <<sample, score, switched, before>>
classifyVars == <<call, call_level>>
textVars == <<text_in, text_out>>
titleVars == <<doc, title>>
uploadVars == <<files, file_num, responses>>
vars == <<font_sizes_seen, batchVars, serverVars, scoreVars, classifyVars, textVars,
          titleVars, uploadVars>>

---------------------------------------------------------------------------
(* binary64 arithmetic.  A float v >= 0 is the natural number v * 2^75,    *)
(* little-endian in 6 limbs of 15 bits (5 fraction limbs, 1 integer limb); *)
(* exact intermediate results have 12 limbs and 150 fraction bits.  Every  *)
(* non-zero float of the program lies in [2^-22, 2^15), where a 53-bit     *)
(* significand fits the 75 fraction bits exactly.                          *)

Base == 2^15
FracLimbs == 5
WideLimbs == 2 * (FracLimbs + 1)

Zeros(n) == [j \in 1..n |-> 0]

RECURSIVE BitLen(_)
BitLen(x) == IF x = 0 THEN 0 ELSE 1 + BitLen(x \div 2)

RECURSIVE TopFrom(_, _)
TopFrom(N, t) == IF t = 0 \/ N[t] # 0 THEN t ELSE TopFrom(N, t - 1)
TopLimb(N) == TopFrom(N, Len(N))          \* index of the top non-zero limb, or 0
BitLength(N) == LET t == TopLimb(N)
                IN  IF t = 0 THEN 0 ELSE 15 * (t - 1) + BitLen(N[t])
Bit(N, k) == (N[(k \div 15) + 1] \div 2^(k % 15)) % 2
AnyBelow(N, k) == \/ \E j \in 1..(k \div 15) : N[j] # 0
                  \/ N[(k \div 15) + 1] % 2^(k % 15) # 0
Truncate(N, d) == [j \in 1..Len(N) |->
                     IF j < (d \div 15) + 1 THEN 0
                     ELSE IF j = (d \div 15) + 1 THEN N[j] - (N[j] % 2^(d % 15))
                     ELSE N[j]]
OneBit(n, d) == [j \in 1..n |-> IF j = (d \div 15) + 1 THEN 2^(d % 15) ELSE 0]

RECURSIVE AddC(_, _, _, _)
AddC(a, b, i, c) == IF i > Len(a) THEN <<>>
                    ELSE LET s == a[i] + b[i] + c
                         IN  <<s % Base>> \o AddC(a, b, i + 1, s \div Base)
BAdd(a, b) == AddC(a, b, 1, 0)

RECURSIVE MulC(_, _, _, _)
MulC(a, k, i, c) == IF i > Len(a) THEN <<>>
                    ELSE LET s == a[i] * k + c
                         IN  <<s % Base>> \o MulC(a, k, i + 1, s \div Base)
Row(a, k, sh) == Zeros(sh) \o MulC(a \o Zeros(WideLimbs - Len(a) - sh), k, 1, 0)
RECURSIVE MulRows(_, _, _)
MulRows(a, b, j) == IF j > Len(b) THEN Zeros(WideLimbs)
                    ELSE BAdd(Row(a, b[j], j - 1), MulRows(a, b, j + 1))

\* long division of the limbs N by a small n, top limb first: <<quotient, remainder>>
RECURSIVE DivC(_, _, _, _)
DivC(N, n, i, r) == IF i = 0 THEN <<<<>>, r>>
                    ELSE LET cur == r * Base + N[i]
                             rest == DivC(N, n, i - 1, cur % n)
                         IN  <<rest[1] \o <<cur \div n>>, rest[2]>>

Narrow(N) == SubSeq(N, FracLimbs + 1, WideLimbs - 1)

\* round the exact 12-limb value N (plus a sticky bit for what division left
\* over) to 53 significant bits, ties to even
Round(N, sticky) ==
    LET d == BitLength(N) - 53 IN
    IF d <= 0 THEN Narrow(N)
    ELSE LET up == Bit(N, d - 1) = 1
                     /\ (AnyBelow(N, d - 1) \/ sticky \/ Bit(N, d) = 1)
             T == Truncate(N, d)
         IN  Narrow(IF up THEN BAdd(T, OneBit(WideLimbs, d)) ELSE T)

FInt(a) == Zeros(FracLimbs) \o <<a>>                \* float(a), a an int < 2^15
Zero == FInt(0)
\* x + y
FAdd(x, y) == IF x = Zero THEN y
              ELSE IF y = Zero THEN x
              ELSE Round(Zeros(FracLimbs) \o BAdd(x, y) \o <<0>>, FALSE)
\* x * y
FMul(x, y) == IF x = Zero \/ y = Zero THEN Zero ELSE Round(MulRows(x, y, 1), FALSE)
\* a / n for ints a >= 0, n > 0 (also the float that the decimal literal a/n denotes)
FQuot(a, n) == LET q == DivC(Zeros(2 * FracLimbs) \o <<a, 0>>, n, WideLimbs, 0)
               IN  Round(q[1], q[2] # 0)
\* the limbs compared from the top one down
RECURSIVE CmpFrom(_, _, _)
CmpFrom(x, y, i) == IF i = 0 THEN 0
                    ELSE IF x[i] < y[i] THEN -1
                    ELSE IF x[i] > y[i] THEN 1
                    ELSE CmpFrom(x, y, i - 1)
FLt(x, y) == x # y /\ CmpFrom(x, y, Len(x)) < 0     \* x < y
FLe(x, y) == x = y \/ CmpFrom(x, y, Len(x)) < 0     \* x <= y
FMax(x, y) == IF FLt(x, y) THEN y ELSE x            \* max(x, y)
FMin(x, y) == IF FLt(y, x) THEN y ELSE x            \* min(x, y)

\* the float literals of heading_detector.py
F0_0  == Zero
F1_0  == FInt(1)
F0_05 == FQuot(5, 100)
F0_1  == FQuot(1, 10)
F0_15 == FQuot(15, 100)
F0_2  == FQuot(2, 10)
F0_3  == FQuot(3, 10)
F0_4  == FQuot(4, 10)
F0_5  == FQuot(5, 10)
F1_1  == FQuot(11, 10)
F1_2  == FQuot(12, 10)
F1_4  == FQuot(14, 10)

---------------------------------------------------------------------------
(* Characters and the str / re operations the detector uses.               *)

LowerSeq == <<"a", "b", "c", "d", "e", "f", "g", "h", "i", "j", "k", "l", "m",
              "n", "o", "p", "q", "r", "s", "t", "u", "v", "w", "x", "y", "z",
              "a_circ">>
UpperSeq == <<"A", "B", "C", "D", "E", "F", "G", "H", "I", "J", "K", "L", "M",
              "N", "O", "P", "Q", "R", "S", "T", "U", "V", "W", "X", "Y", "Z",
              "A_CIRC">>
\* the cased characters: "a_circ", "A_CIRC" are U+00E2 and U+00C2
LowerChars == {LowerSeq[i] : i \in 1..Len(LowerSeq)}
UpperChars == {UpperSeq[i] : i \in 1..Len(UpperSeq)}
AsciiLower == {LowerSeq[i] : i \in 1..26}                          \* [a-z]
AsciiUpper == {UpperSeq[i] : i \in 1..26}                          \* [A-Z]
DigitChars == {"0", "1", "2", "3", "4", "5", "6", "7", "8", "9"}   \* \d
SpaceChars == {" ", "TAB", "NL"}                                   \* \s
\* uncased, not digits, not whitespace: the punctuation, and "BULLET", "EURO",
\* "CENT" for U+2022, U+20AC, U+00A2

ToLower(c) == IF c \in UpperChars
              THEN LowerSeq[CHOOSE i \in 1..Len(UpperSeq) : UpperSeq[i] = c] ELSE c
lower(t) == [i \in 1..Len(t) |-> ToLower(t[i])]                    \* str.lower

RECURSIVE SkipFrom(_, _, _)
SkipFrom(t, i, S) == IF i <= Len(t) /\ t[i] \in S THEN SkipFrom(t, i + 1, S) ELSE i
RECURSIVE SkipBack(_, _, _)
SkipBack(t, i, S) == IF i >= 1 /\ t[i] \in S THEN SkipBack(t, i - 1, S) ELSE i

\* str.strip(): without the whitespace at both ends
strip(t) == SubSeq(t, SkipFrom(t, 1, SpaceChars), SkipBack(t, Len(t), SpaceChars))
\* len(str.split()): the number of maximal runs of non-whitespace
WordCount(t) == Cardinality({i \in 1..Len(t) :
                    t[i] \notin SpaceChars /\ (i = 1 \/ t[i - 1] \in SpaceChars)})
\* str.isupper(): there is a cased character and no cased character is lowercase
isupper(t) == /\ \E i \in 1..Len(t) : t[i] \in UpperChars
              /\ \A i \in 1..Len(t) : t[i] \notin LowerChars
\* str.istitle(): uppercase only after uncased, lowercase only after cased
istitle(t) == /\ \E i \in 1..Len(t) : t[i] \in UpperChars
              /\ \A i \in 1..Len(t) :
                    LET cased == i > 1 /\ t[i - 1] \in (UpperChars \cup LowerChars)
                    IN  /\ t[i] \in UpperChars => ~cased
                        /\ t[i] \in LowerChars => cased
\* `sub in t` for strings
Contains(t, sub) == \E i \in 0..(Len(t) - Len(sub)) :
                       \A j \in 1..Len(sub) : t[i + j] = sub[j]

(* re.match pieces: each takes the position the match has reached (0: no   *)
(* match) and returns the position after the piece.  The character classes *)
(* that follow one another in the patterns are disjoint, so the greedy     *)
(* match is the only one.                                                  *)
Many(t, i, S) == IF i = 0 THEN 0                                   \* [S]+
                 ELSE LET j == SkipFrom(t, i, S) IN IF j > i THEN j ELSE 0
One(t, i, S) == IF i # 0 /\ i <= Len(t) /\ t[i] \in S THEN i + 1 ELSE 0   \* [S]
Word(t, i, w, ignorecase) ==                                       \* a literal
    IF i # 0 /\ i + Len(w) - 1 <= Len(t)
            /\ \A j \in 1..Len(w) :
                  IF ignorecase THEN ToLower(t[i + j - 1]) = ToLower(w[j])
                  ELSE t[i + j - 1] = w[j]
    THEN i + Len(w) ELSE 0
Either(i, j) == IF i # 0 THEN i ELSE j                             \* (a|b)
\* [IVX], [A-Z] and [a-z] under re.IGNORECASE
RomanAnyCase == {"I", "V", "X", "i", "v", "x"}
LetterAnyCase == AsciiUpper \cup AsciiLower

Chapter == <<"C", "h", "a", "p", "t", "e", "r">>
CHAPTER == <<"C", "H", "A", "P", "T", "E", "R">>
Section == <<"S", "e", "c", "t", "i", "o", "n">>
SECTION == <<"S", "E", "C", "T", "I", "O", "N">>

\* r'^(Chapter|CHAPTER)\s+\d+'
MatchChapter(t, ic) ==
    Many(t, Many(t, Either(Word(t, 1, Chapter, ic), Word(t, 1, CHAPTER, ic)),
                 SpaceChars), DigitChars) # 0
\* r'^(Section|SECTION)\s+\d+'
MatchSection(t, ic) ==
    Many(t, Many(t, Either(Word(t, 1, Section, ic), Word(t, 1, SECTION, ic)),
                 SpaceChars), DigitChars) # 0
\* r'^\d+\.\s+'
MatchNum1(t) == Many(t, One(t, Many(t, 1, DigitChars), {"."}), SpaceChars) # 0
\* r'^\d+\.\d+\s+'
MatchNum2(t) ==
    Many(t, Many(t, One(t, Many(t, 1, DigitChars), {"."}), DigitChars),
         SpaceChars) # 0
\* r'^\d+\.\d+\.\d+\s+'
MatchNum3(t) ==
    Many(t, Many(t, One(t, Many(t, One(t, Many(t, 1, DigitChars), {"."}),
                                DigitChars), {"."}), DigitChars), SpaceChars) # 0
\* r'^[IVX]+\.\s+'
MatchRoman(t, ic) ==
    Many(t, One(t, Many(t, 1, IF ic THEN RomanAnyCase ELSE {"I", "V", "X"}), {"."}), SpaceChars) # 0
\* r'^[A-Z]\.\s+'
MatchUpperLetter(t, ic) ==
    Many(t, One(t, One(t, 1, IF ic THEN LetterAnyCase ELSE AsciiUpper), {"."}), SpaceChars) # 0
\* r'^[a-z]\)\s+'
MatchLowerLetter(t, ic) ==
    Many(t, One(t, One(t, 1, IF ic THEN LetterAnyCase ELSE AsciiLower), {")"}), SpaceChars) # 0
\* r'^\(\d+\)\s+'
MatchParenNum(t) ==
    Many(t, One(t, Many(t, One(t, 1, {"("}), DigitChars), {")"}), SpaceChars) # 0
\* r'^<U+00E2><U+20AC><U+00A2>\s+': the three characters the source file holds
MatchBullet(t, ic) ==
    Many(t, Word(t, 1, <<"a_circ", "EURO", "CENT">>, ic), SpaceChars) # 0
\* r'^-\s+'
MatchDash(t) == Many(t, One(t, 1, {"-"}), SpaceChars) # 0
\* r'^\d+\.'
MatchNumDot(t) == One(t, Many(t, 1, DigitChars), {"."}) # 0

\* self.heading_patterns, each matched with re.IGNORECASE, in list order
heading_patterns(t) ==
    << MatchChapter(t, TRUE), MatchSection(t, TRUE), MatchNum1(t), MatchNum2(t),
       MatchNum3(t), MatchRoman(t, TRUE), MatchUpperLetter(t, TRUE),
       MatchLowerLetter(t, TRUE), MatchParenNum(t), MatchBullet(t, TRUE),
       MatchDash(t) >>

heading_keywords == <<
    <<"i", "n", "t", "r", "o", "d", "u", "c", "t", "i", "o", "n">>,
    <<"c", "o", "n", "c", "l", "u", "s", "i", "o", "n">>,
    <<"s", "u", "m", "m", "a", "r", "y">>,
    <<"o", "v", "e", "r", "v", "i", "e", "w">>,
    <<"b", "a", "c", "k", "g", "r", "o", "u", "n", "d">>,
    <<"m", "e", "t", "h", "o", "d", "o", "l", "o", "g", "y">>,
    <<"r", "e", "s", "u", "l", "t", "s">>,
    <<"d", "i", "s", "c", "u", "s", "s", "i", "o", "n">>,
    <<"a", "n", "a", "l", "y", "s", "i", "s">>,
    <<"f", "i", "n", "d", "i", "n", "g", "s">>,
    <<"r", "e", "c", "o", "m", "m", "e", "n", "d", "a", "t", "i", "o", "n", "s">>,
    <<"r", "e", "f", "e", "r", "e", "n", "c", "e", "s">>,
    <<"b", "i", "b", "l", "i", "o", "g", "r", "a", "p", "h", "y">>,
    <<"a", "p", "p", "e", "n", "d", "i", "x">>,
    <<"a", "b", "s", "t", "r", "a", "c", "t">>,
    <<"e", "x", "e", "c", "u", "t", "i", "v", "e">>,
    <<"f", "o", "r", "e", "w", "o", "r", "d">>,
    <<"p", "r", "e", "f", "a", "c", "e">>,
    <<"a", "c", "k", "n", "o", "w", "l", "e", "d", "g", "m", "e", "n", "t", "s">> >>

\* self.font_thresholds
h1_min == 16
h2_min == 14
h3_min == 12

---------------------------------------------------------------------------
(* HeadingDetector.  self.font_sizes_seen is the parameter `sizes`.        *)

None == "None"
NoHeading == [level |-> None, text |-> <<>>]      \* analyze_text returning None

RECURSIVE Sum(_)
Sum(s) == IF s = <<>> THEN 0 ELSE Head(s) + Sum(Tail(s))       \* sum(list)

\* sum(self.font_sizes_seen) / len(self.font_sizes_seen)
Average(sizes) == FQuot(Sum(sizes), Len(sizes))

\* a variant of is_potential_heading that rejects 200 characters too
is_potential_heading_below_200(text) ==
    IF Len(strip(text)) < 3 \/ Len(strip(text)) >= 200 THEN FALSE
    ELSE IF WordCount(text) > 20 THEN FALSE
    ELSE IF text[1] \in LowerChars /\ ~MatchNumDot(text) THEN FALSE
    ELSE TRUE

is_potential_heading(text) ==
    IF Len(strip(text)) < 3 \/ Len(strip(text)) > 200 THEN FALSE
    ELSE IF WordCount(text) > 20 THEN FALSE
    ELSE IF text[1] \in LowerChars /\ ~MatchNumDot(text) THEN FALSE
    ELSE TRUE

\* font size factor: font_size > avg_font_size * 1.2 adds 0.3, elif > avg_font_size * 1.1
\* adds 0.2
FontSizeFactor(font_size, avg_font_size) ==
    IF FLt(FMul(avg_font_size, F1_2), FInt(font_size)) THEN F0_3
    ELSE IF FLt(FMul(avg_font_size, F1_1), FInt(font_size)) THEN F0_2
    ELSE F0_0

\* is_bold = flags & 2**4
BoldFlag(flags) == IF (flags \div 2^4) % 2 = 1 THEN F0_2 ELSE F0_0

\* 'bold' in font_name.lower() or 'black' in font_name.lower()
BoldName(font_lower) ==
    IF \E w \in {<<"b", "o", "l", "d">>, <<"b", "l", "a", "c", "k">>} : Contains(font_lower, w)
    THEN F0_15 ELSE F0_0

\* 'heading' in font_name.lower() or 'title' in font_name.lower()
HeadingName(font_lower) ==
    IF \E w \in {<<"h", "e", "a", "d", "i", "n", "g">>, <<"t", "i", "t", "l", "e">>} :
           Contains(font_lower, w)
    THEN F0_2 ELSE F0_0

\* a variant of PatternMatch that adds 0.2
PatternMatchAdding0_2(matches) ==
    IF \E k \in 1..Len(matches) : matches[k] THEN F0_2 ELSE F0_0

\* the first pattern that matches, then break
PatternMatch(matches) == IF \E k \in 1..Len(matches) : matches[k] THEN F0_3 ELSE F0_0

\* the first keyword found in text.lower(), then break
KeywordMatch(text_lower) ==
    IF \E k \in 1..Len(heading_keywords) : Contains(text_lower, heading_keywords[k])
    THEN F0_1 ELSE F0_0

\* relative_position = y_position / page_height if page_height > 0 else 0
relative_position(bbox, page_height) ==
    IF page_height > 0 THEN FQuot(IF bbox # <<>> THEN bbox[2] ELSE 0, page_height)
    ELSE F0_0

\* top 10% of the page
PositionFactor(bbox, page_height) ==
    IF FLt(relative_position(bbox, page_height), F0_1) THEN F0_1 ELSE F0_0

\* 10 <= len(text.strip()) <= 80
LengthFactor(text_length) == IF 10 <= text_length /\ text_length <= 80 THEN F0_1 ELSE F0_0

\* text.isupper(), elif text.istitle()
CaseFactor(text) ==
    IF isupper(text) THEN F0_1 ELSE IF istitle(text) THEN F0_05 ELSE F0_0

\* what each "confidence += ..." of _calculate_heading_confidence adds, in the
\* order of the code; a signal that is absent adds nothing
Contributions(text, font_size, font_name, flags, bbox, page_height, sizes) ==
    << FontSizeFactor(font_size, IF sizes # <<>> THEN Average(sizes) ELSE FInt(12)),
       BoldFlag(flags),
       BoldName(lower(font_name)),
       HeadingName(lower(font_name)),
       PatternMatch(heading_patterns(text)),
       KeywordMatch(lower(text)),
       PositionFactor(bbox, page_height),
       LengthFactor(Len(strip(text))),
       CaseFactor(text) >>

\* confidence = 0.0, then the additions one after the other
\* a variant of Accumulate in which a signal assigns instead of adding
RECURSIVE AccumulateAssigning(_, _)
AccumulateAssigning(added, n) ==
    IF n = 0 THEN F0_0
    ELSE IF added[n] # Zero THEN added[n]
    ELSE AccumulateAssigning(added, n - 1)

RECURSIVE Accumulate(_, _)
Accumulate(added, n) ==
    IF n = 0 THEN F0_0 ELSE FAdd(Accumulate(added, n - 1), added[n])

\* a variant of Total that returns the sum as it is
TotalUnclamped(added) == Accumulate(added, Len(added))

\* return min(confidence, 1.0)
Total(added) == FMin(Accumulate(added, Len(added)), F1_0)

calculate_heading_confidence(text, font_size, font_name, flags, bbox, page_height, sizes) ==
    Total(Contributions(text, font_size, font_name, flags, bbox, page_height, sizes))

\* a variant of LexicalLevel whose first numbered pattern lacks the \s+
LexicalLevelLoose(text) ==
    IF MatchChapter(text, FALSE) THEN "H1"
    ELSE IF MatchSection(text, FALSE) THEN "H2"
    ELSE IF MatchNumDot(text) THEN "H1"
    ELSE IF MatchNum2(text) THEN "H2"
    ELSE IF MatchNum3(text) THEN "H3"
    ELSE None

\* pattern-based classification: the first re.match that succeeds returns
LexicalLevel(text) ==
    IF MatchChapter(text, FALSE) THEN "H1"
    ELSE IF MatchSection(text, FALSE) THEN "H2"
    ELSE IF MatchNum1(text) THEN "H1"
    ELSE IF MatchNum2(text) THEN "H2"
    ELSE IF MatchNum3(text) THEN "H3"
    ELSE None

\* max(avg_font * factor, minimum) with a profile, the fixed minimum without
Threshold(sizes, factor, minimum) ==
    IF sizes # <<>> THEN FMax(FMul(Average(sizes), factor), FInt(minimum))
    ELSE FInt(minimum)

\* a variant of TierLevel that compares the confidence with >=
TierLevelInclusive(font_size, confidence, h1_threshold, h2_threshold, h3_threshold) ==
    IF FLe(h1_threshold, font_size) /\ FLe(F0_5, confidence) THEN "H1"
    ELSE IF FLe(h2_threshold, font_size) /\ FLe(F0_4, confidence) THEN "H2"
    ELSE IF FLe(h3_threshold, font_size) /\ FLe(F0_3, confidence) THEN "H3"
    ELSE IF FLe(F0_5, confidence) THEN "H2"
    ELSE IF FLe(F0_4, confidence) THEN "H3"
    ELSE None

\* a variant of TierLevel whose default for a confidence above 0.5 is H1
TierLevelDefaultH1(font_size, confidence, h1_threshold, h2_threshold, h3_threshold) ==
    IF FLe(h1_threshold, font_size) /\ FLt(F0_5, confidence) THEN "H1"
    ELSE IF FLe(h2_threshold, font_size) /\ FLt(F0_4, confidence) THEN "H2"
    ELSE IF FLe(h3_threshold, font_size) /\ FLt(F0_3, confidence) THEN "H3"
    ELSE IF FLt(F0_5, confidence) THEN "H1"
    ELSE IF FLt(F0_4, confidence) THEN "H3"
    ELSE None

\* font size based classification, then the default for a moderate confidence
TierLevel(font_size, confidence, h1_threshold, h2_threshold, h3_threshold) ==
    IF FLe(h1_threshold, font_size) /\ FLt(F0_5, confidence) THEN "H1"
    ELSE IF FLe(h2_threshold, font_size) /\ FLt(F0_4, confidence) THEN "H2"
    ELSE IF FLe(h3_threshold, font_size) /\ FLt(F0_3, confidence) THEN "H3"
    ELSE IF FLt(F0_5, confidence) THEN "H2"
    ELSE IF FLt(F0_4, confidence) THEN "H3"
    ELSE None

classify_heading_level(text, font_size, flags, confidence, sizes) ==
    IF LexicalLevel(text) # None THEN LexicalLevel(text)
    ELSE TierLevel(FInt(font_size), confidence,
                   Threshold(sizes, F1_4, h1_min),
                   Threshold(sizes, F1_2, h2_min),
                   Threshold(sizes, F1_1, h3_min))

\* re.sub(r'\s+', ' ', text) between two positions: every character that is
\* not whitespace stays, the first character of a run of whitespace becomes
\* one space and the rest of the run goes (halving keeps the nesting shallow
\* for a text of hundreds of characters)
RECURSIVE CollapseBetween(_, _, _)
CollapseBetween(t, i, j) ==
    IF i > j THEN <<>>
    ELSE IF i = j
         THEN IF t[i] \notin SpaceChars THEN <<t[i]>>
              ELSE IF i > 1 /\ t[i - 1] \in SpaceChars THEN <<>>
              ELSE <<" ">>
         ELSE CollapseBetween(t, i, (i + j) \div 2)
                  \o CollapseBetween(t, (i + j) \div 2 + 1, j)

\* re.sub(r'\s+', ' ', text)
CollapseFrom(t, i) == CollapseBetween(t, i, Len(t))

\* a variant of clean_heading_text that removes the trailing punctuation of a
\* numbered text as well
clean_heading_text_every_tail(text) ==
    LET collapsed == strip(CollapseFrom(text, 1))
    IN  SubSeq(collapsed, 1,
               SkipBack(collapsed, Len(collapsed), {".", ",", ":", ";", "!", "?"}))

clean_heading_text(text) ==
    LET collapsed == strip(CollapseFrom(text, 1))
    IN  IF ~MatchNumDot(collapsed)
        THEN SubSeq(collapsed, 1,
                    SkipBack(collapsed, Len(collapsed), {".", ",", ":", ";", "!", "?"}))
        ELSE collapsed

\* the result of analyze_text: the classified level with the cleaned text
Heading(level, text) ==
    IF level # None THEN [level |-> level, text |-> clean_heading_text(text)]
    ELSE NoHeading

\* a variant of Analyzed that classifies whatever the confidence is
AnalyzedWithoutGate(text, font_size, flags, seen, potential, confidence) ==
    [ seen |-> seen,
      scored |-> potential,
      confidence |-> IF potential THEN confidence ELSE Zero,
      classified |-> potential,
      heading |-> IF potential
                  THEN Heading(classify_heading_level(text, font_size, flags, confidence,
                                                      seen), text)
                  ELSE NoHeading ]

\* analyze_text after the append: the prefilter, the 0.3 gate, the classifier.
\* The fields are the list after the call, the routines the call ran and what
\* the call returns.
Analyzed(text, font_size, flags, seen, potential, confidence) ==
    [ seen |-> seen,
      scored |-> potential,
      confidence |-> IF potential THEN confidence ELSE Zero,
      classified |-> potential /\ ~FLt(confidence, F0_3),
      heading |-> IF potential /\ ~FLt(confidence, F0_3)
                  THEN Heading(classify_heading_level(text, font_size, flags, confidence,
                                                      seen), text)
                  ELSE NoHeading ]

\* a variant of analyze_text that records the font size behind the prefilter
analyze_text_recording_candidates(text, font_size, font_name, flags, bbox, page_height, sizes) ==
    Analyzed(text, font_size, flags,
             IF is_potential_heading(text) THEN Append(sizes, font_size) ELSE sizes,
             is_potential_heading(text),
             calculate_heading_confidence(text, font_size, font_name, flags, bbox,
                                          page_height, Append(sizes, font_size)))

\* a variant of analyze_text that scores the span before it records its size
analyze_text_scoring_first(text, font_size, font_name, flags, bbox, page_height, sizes) ==
    Analyzed(text, font_size, flags, Append(sizes, font_size),
             is_potential_heading(text),
             calculate_heading_confidence(text, font_size, font_name, flags, bbox,
                                          page_height, sizes))

analyze_text(text, font_size, font_name, flags, bbox, page_height, sizes) ==
    Analyzed(text, font_size, flags, Append(sizes, font_size),
             is_potential_heading(text),
             calculate_heading_confidence(text, font_size, font_name, flags, bbox,
                                          page_height, Append(sizes, font_size)))

---------------------------------------------------------------------------
(* PDFExtractor._extract_outline, driven by process_pdf_files (main.py).   *)
(* The parser's output is the input: the page count is drawn when the      *)
(* document is opened and every next span when the loop reaches it.        *)

MaxDocs == 2        \* documents in the input directory
MaxSpans == 3       \* spans in the documents of one batch
MaxSmallPages == 2  \* page counts 0..MaxSmallPages of the short documents
ExtraPages == 2     \* the long documents have up to MAX_PAGES + ExtraPages pages

MAX_PAGES == 50

\* dict.get(key, default)
Get(d, key, default) == IF key \in DOMAIN d THEN d[key] ELSE default

\* page.rect.height
PageHeight(p) == 800

Arial == <<"A", "r", "i", "a", "l">>
ArialBold == <<"A", "r", "i", "a", "l", "-", "B", "o", "l", "d">>

\* the spans a page of the input documents may hold
SpanInputs ==
    { [text |-> <<"1", ".", " ", "I", "n", "t", "r", "o", "d", "u", "c", "t", "i", "o", "n">>,
       size |-> 12, font |-> Arial, flags |-> 0, bbox |-> <<72, 100, 300, 112>>],
      [text |-> <<"R", "e", "s", "u", "l", "t", "s", ":">>,
       size |-> 16, font |-> ArialBold, flags |-> 16, bbox |-> <<72, 40, 300, 60>>],
      [text |-> <<"B", "u", "d", "g", "e", "t">>,
       size |-> 14, font |-> Arial, flags |-> 0, bbox |-> <<72, 300, 300, 314>>],
      [text |-> <<"b", "o", "d", "y", " ", "t", "e", "x", "t">>,
       size |-> 10, font |-> Arial, flags |-> 0, bbox |-> <<72, 400, 300, 410>>],
      [text |-> <<" ", " ">>,
       size |-> 10, font |-> Arial, flags |-> 0, bbox |-> <<72, 500, 80, 510>>] }

NoCall == [text |-> <<>>, font_size |-> 0, profile |-> <<>>, scored |-> FALSE,
           confidence |-> Zero, classified |-> FALSE, heading |-> NoHeading, page |-> 0]

\* a variant of max_pages without the cap
max_pages_uncapped(n) == n

\* max_pages = min(len(doc), 50)
max_pages(n) == IF n < MAX_PAGES THEN n ELSE MAX_PAGES

\* a variant of Extended that inserts the entry at the front
ExtendedAtFront(list, heading, page) ==
    IF heading # NoHeading
    THEN <<[level |-> heading.level, text |-> heading.text, page |-> page]>> \o list
    ELSE list

\* outline.append({level, text, page}) when analyze_text returned a heading
Extended(list, heading, page) ==
    IF heading # NoHeading
    THEN Append(list, [level |-> heading.level, text |-> heading.text, page |-> page])
    ELSE list

BatchInit ==
    /\ font_sizes_seen = <<>>          \* extractor = PDFExtractor()
    /\ pc = "idle"
    /\ n_pages = 0
    /\ page_num = 0
    /\ span_count = 0
    /\ outline = <<>>
    /\ last = NoCall
    /\ results = <<>>
    /\ text_in = <<>>
    /\ text_out = <<>>
    /\ doc = <<>>
    /\ title = <<>>
    /\ files = <<>>
    /\ file_num = 0
    /\ responses = <<>>
    /\ ref_sizes = <<>>
    /\ ref_outline = <<>>
    /\ tasks = <<>>
    /\ accesses = <<>>
    /\ sample = <<>>
    /\ score = <<>>
    /\ switched = 0
    /\ before = Zero
    /\ call = <<>>
    /\ call_level = None

\* extract_structure opens the next file and _extract_outline starts
OpenDocument(n) ==
    /\ pc = "idle"
    /\ Len(results) < MaxDocs
    /\ pc' = "pages"
    /\ n_pages' = n
    /\ page_num' = 0
    /\ outline' = <<>>
    /\ last' = NoCall
    /\ ref_sizes' = <<>>
    /\ ref_outline' = <<>>
    /\ UNCHANGED <<font_sizes_seen, span_count, results, serverVars, scoreVars, classifyVars,
                   textVars, titleVars, uploadVars>>

\* fitz.open raises: extract_structure re-raises, the loop writes the error result
OpenFails ==
    /\ pc = "idle"
    /\ Len(results) < MaxDocs
    /\ results' = Append(results, [title |-> "Error extracting title", outline |-> <<>>,
                                   error |-> "Failed to process PDF"])
    /\ UNCHANGED <<font_sizes_seen, pc, n_pages, page_num, span_count, outline, last,
                   ref_sizes, ref_outline, serverVars, scoreVars, classifyVars,
                   textVars, titleVars, uploadVars>>

\* the span's text is not empty: analyze_text ran (r) and the outline grew by
\* what it returned; ref is the same call on an extractor of this document's own
Recorded(text, font_size, r, ref) ==
    /\ font_sizes_seen' = r.seen
    /\ outline' = Extended(outline, r.heading, page_num + 1)
    /\ last' = [text |-> text, font_size |-> font_size, profile |-> font_sizes_seen,
                scored |-> r.scored, confidence |-> r.confidence,
                classified |-> r.classified, heading |-> r.heading,
                page |-> page_num + 1]
    /\ ref_sizes' = ref.seen
    /\ ref_outline' = Extended(ref_outline, ref.heading, page_num + 1)

\* text = span.get("text", "").strip(); if not text: continue
Analyze(text, span) ==
    IF text = <<>>
    THEN UNCHANGED <<font_sizes_seen, outline, last, ref_sizes, ref_outline>>
    ELSE Recorded(text, Get(span, "size", 12),
                  analyze_text(text, Get(span, "size", 12), Get(span, "font", <<>>),
                               Get(span, "flags", 0), Get(span, "bbox", <<0, 0, 0, 0>>),
                               PageHeight(page_num), font_sizes_seen),
                  analyze_text(text, Get(span, "size", 12), Get(span, "font", <<>>),
                               Get(span, "flags", 0), Get(span, "bbox", <<0, 0, 0, 0>>),
                               PageHeight(page_num), ref_sizes))

\* the loop body of _extract_outline for the next span of page page_num
AnalyzeSpan(span) ==
    /\ pc = "pages"
    /\ page_num < max_pages(n_pages)
    /\ span_count < MaxSpans
    /\ span_count' = span_count + 1
    /\ Analyze(strip(Get(span, "text", <<>>)), span)
    /\ UNCHANGED <<pc, n_pages, page_num, results, serverVars, scoreVars, classifyVars,
                   textVars, titleVars, uploadVars>>

\* the spans of page page_num are exhausted
NextPage ==
    /\ pc = "pages"
    /\ page_num < max_pages(n_pages)
    /\ page_num' = page_num + 1
    /\ UNCHANGED <<font_sizes_seen, pc, n_pages, span_count, outline, last, results,
                   ref_sizes, ref_outline, serverVars, scoreVars, classifyVars,
                   textVars, titleVars, uploadVars>>

\* _extract_outline returns, extract_structure returns and the result is written
CloseDocument ==
    /\ pc = "pages"
    /\ page_num = max_pages(n_pages)
    /\ results' = Append(results, [outline |-> outline])
    /\ pc' = "idle"
    /\ UNCHANGED <<font_sizes_seen, n_pages, page_num, span_count, outline, last,
                   ref_sizes, ref_outline, serverVars, scoreVars, classifyVars,
                   textVars, titleVars, uploadVars>>

Init == BatchInit

Next ==
    \/ \E n \in 0..MaxSmallPages : OpenDocument(n)
    \/ OpenFails
    \/ \E span \in SpanInputs : AnalyzeSpan(span)
    \/ NextPage
    \/ CloseDocument

Spec == Init /\ [][Next]_vars

---------------------------------------------------------------------------
(* Claims about the batch front end, checked under Spec.                   *)

\* C1: the outline extracted for a document does not depend on the documents
\* processed before it: while a document is being read, the outline built so
\* far equals the outline a PDFExtractor constructed for this document alone
\* builds from the same spans.
C1_OutlineAsFreshExtractor ==
    pc = "pages" => outline = ref_outline

C4_AppendOnly ==
    /\ [][pc = "pages" =>
            \/ outline' = outline
            \/ /\ last'.heading # NoHeading
               /\ outline' = Append(outline, [level |-> last'.heading.level,
                                              text |-> last'.heading.text,
                                              page |-> page_num + 1])]_vars
    /\ [](\A i \in 1..Len(outline) : \A j \in i..Len(outline) :
              outline[i].page <= outline[j].page)

\* two accepted spans on two pages
C4_Witness ==
    /\ Len(outline) = 2
    /\ outline[1].page < outline[2].page
    /\ last.heading # NoHeading

\* C8: the level classifier runs only for a span whose confidence is at least
\* 0.3: a scored span below 0.3 is not classified and gives no heading, and a
\* span that gave an outline entry was scored at 0.3 or more.
C8_GateBeforeClassifier ==
    /\ (last.scored /\ FLt(last.confidence, F0_3)) =>
           (~last.classified /\ last.heading = NoHeading)
    /\ last.classified => last.scored /\ FLe(F0_3, last.confidence)
    /\ last.heading # NoHeading => last.classified /\ FLe(F0_3, last.confidence)

\* a span passed the prefilter, scored below 0.3 and was dropped, after an
\* earlier span of the document had entered the outline
C8_Witness ==
    /\ last.scored
    /\ FLt(last.confidence, F0_3)
    /\ ~last.classified
    /\ Len(outline) > 0

---------------------------------------------------------------------------
(* Documents around the page cap: one document of MAX_PAGES - ExtraPages   *)
(* to MAX_PAGES + ExtraPages pages, whose first pages hold no text.        *)

LongPages == (MAX_PAGES - ExtraPages)..(MAX_PAGES + ExtraPages)

\* the first page index whose page holds spans
FirstTextPage == MAX_PAGES - ExtraPages

LongNext ==
    \/ \E n \in LongPages : Len(results) = 0 /\ OpenDocument(n)
    \/ \E span \in SpanInputs : page_num >= FirstTextPage /\ AnalyzeSpan(span)
    \/ NextPage
    \/ CloseDocument

SpecLong == BatchInit /\ [][LongNext]_vars

\* C5: only the pages 1..min(n, 50) of a document are read: the loop never
\* goes past them, every span given to analyze_text (the one place that adds to
\* the font profile) and every outline entry is on a page 1..50, and a
\* document of more than 50 pages ends with its outline as the result, not
\* with an error.
C5_PageCap ==
    /\ page_num <= n_pages /\ page_num <= MAX_PAGES
    /\ \A i \in 1..Len(outline) : outline[i].page \in 1..MAX_PAGES
    /\ last # NoCall => last.page \in 1..MAX_PAGES /\ last.page <= n_pages
    /\ (pc = "idle" /\ Len(results) = 1) =>
           /\ "error" \notin DOMAIN results[1]
           /\ results[1].outline = outline

\* a document of more than 50 pages has been written with an entry of page 50
C5_Witness ==
    /\ pc = "idle"
    /\ n_pages > MAX_PAGES
    /\ Len(results) = 1
    /\ \E i \in 1..Len(results[1].outline) : results[1].outline[i].page = MAX_PAGES

---------------------------------------------------------------------------
(* The web front end (server.py).  The extractor is a module global; every *)
(* /upload request runs upload_files on a thread of its own (app.run's     *)
(* server is threaded), so the calls of analyze_text of two requests may   *)
(* interleave wherever a thread switch can occur: between the append, the  *)
(* scorer's read of the list and the classifier's read of the list.        *)

MaxTasks == 2       \* requests being served at the same time
ServerSpans == 2    \* spans of an uploaded document

Tasks == 1..MaxTasks

Waiting == [pc |-> "waiting", left |-> 0, span |-> <<>>, confidence |-> Zero,
            outline |-> <<>>]

ServerInit ==
    /\ font_sizes_seen = <<>>          \* extractor = PDFExtractor()
    /\ tasks = [t \in Tasks |-> Waiting]
    /\ accesses = <<>>
    /\ pc = "idle"
    /\ n_pages = 0
    /\ page_num = 0
    /\ span_count = 0
    /\ outline = <<>>
    /\ last = NoCall
    /\ results = <<>>
    /\ text_in = <<>>
    /\ text_out = <<>>
    /\ doc = <<>>
    /\ title = <<>>
    /\ files = <<>>
    /\ file_num = 0
    /\ responses = <<>>
    /\ ref_sizes = <<>>
    /\ ref_outline = <<>>
    /\ sample = <<>>
    /\ score = <<>>
    /\ switched = 0
    /\ before = Zero
    /\ call = <<>>
    /\ call_level = None

\* a request arrives: upload_files saves the file and calls
\* extractor.extract_structure, and _extract_outline starts its list
Upload(t) ==
    /\ tasks[t].pc = "waiting"
    /\ tasks' = [tasks EXCEPT ![t] = [Waiting EXCEPT !.pc = "spans", !.left = ServerSpans]]
    /\ UNCHANGED <<font_sizes_seen, accesses, batchVars, scoreVars, classifyVars,
                   textVars, titleVars, uploadVars>>

\* analyze_text is entered for the next span: the append, then the prefilter
AppendSize(t, span) ==
    /\ tasks[t].pc = "spans"
    /\ tasks[t].left > 0
    /\ font_sizes_seen' = Append(font_sizes_seen, span.size)
    /\ accesses' = Append(accesses, t)
    /\ tasks' = [tasks EXCEPT ![t].left = @ - 1,
                              ![t].span = span,
                              ![t].pc = IF is_potential_heading(strip(span.text))
                                        THEN "scoring" ELSE "spans"]
    /\ UNCHANGED <<batchVars, scoreVars, classifyVars,
                   textVars, titleVars, uploadVars>>

\* _calculate_heading_confidence reads the list as it is now; then the gate
ScoreSpan(t, confidence) ==
    /\ tasks[t].pc = "scoring"
    /\ accesses' = Append(accesses, t)
    /\ tasks' = [tasks EXCEPT ![t].confidence = confidence,
                              ![t].pc = IF FLt(confidence, F0_3) THEN "spans"
                                        ELSE "classifying"]
    /\ UNCHANGED <<font_sizes_seen, batchVars, scoreVars, classifyVars,
                   textVars, titleVars, uploadVars>>

Score(t) ==
    ScoreSpan(t, calculate_heading_confidence(strip(tasks[t].span.text), tasks[t].span.size,
                                              tasks[t].span.font, tasks[t].span.flags,
                                              tasks[t].span.bbox, PageHeight(0),
                                              font_sizes_seen))

\* _classify_heading_level reads the list as it is now; the heading, if any,
\* is appended to the request's outline
ClassifySpan(t, text, span_level) ==
    /\ tasks[t].pc = "classifying"
    /\ accesses' = Append(accesses, t)
    /\ tasks' = [tasks EXCEPT ![t].outline = Extended(@, Heading(span_level, text), 1),
                              ![t].pc = "spans"]
    /\ UNCHANGED <<font_sizes_seen, batchVars, scoreVars, classifyVars,
                   textVars, titleVars, uploadVars>>

Classify(t) ==
    ClassifySpan(t, strip(tasks[t].span.text),
                 classify_heading_level(strip(tasks[t].span.text), tasks[t].span.size,
                                        tasks[t].span.flags, tasks[t].confidence,
                                        font_sizes_seen))

\* the document is exhausted: the result is appended and the response sent
Respond(t) ==
    /\ tasks[t].pc = "spans"
    /\ tasks[t].left = 0
    /\ tasks' = [tasks EXCEPT ![t].pc = "done"]
    /\ UNCHANGED <<font_sizes_seen, accesses, batchVars, scoreVars, classifyVars,
                   textVars, titleVars, uploadVars>>

\* the spans of an uploaded document that reach analyze_text (their text is
\* not empty)
ServerSpanInputs ==
    {s \in SpanInputs : strip(s.text) # <<>> /\ s.size \in {10, 14, 16}}

ServerNext ==
    \E t \in Tasks :
        \/ Upload(t)
        \/ \E span \in ServerSpanInputs : AppendSize(t, span)
        \/ Score(t)
        \/ Classify(t)
        \/ Respond(t)

SpecServer == ServerInit /\ [][ServerNext]_vars

\* C2: the accesses to a font-size list made for one request are not
\* interleaved with those made for another request: in the order of the
\* accesses to font_sizes_seen, between two accesses of one request there is
\* no access of another.
C2_NoInterleaving ==
    \A i \in 1..Len(accesses) : \A k \in i..Len(accesses) :
        accesses[i] = accesses[k] => \A j \in i..k : accesses[j] = accesses[i]

---------------------------------------------------------------------------
(* _calculate_heading_confidence on its own: the arguments are drawn from  *)
(* ScoreSamples, and one argument at a time is changed and the text scored *)
(* again.                                                                  *)

ScoreTexts ==
    { <<"b", "u", "d", "g", "e", "t">>,
      <<"B", "u", "d", "g", "e", "t">>,
      <<"B", "U", "D", "G", "E", "T">>,
      <<"b", "u", "d", "g", "e", "t", " ", "p", "l", "a", "n", "s">>,
      <<"s", "u", "m", "m", "a", "r", "y">>,
      <<"1", ".", " ", "b", "u", "d", "g", "e", "t">>,
      <<"1", ".", " ", "S", "u", "m", "m", "a", "r", "y", " ", "O", "f", " ", "R", "e", "s", "u", "l", "t", "s">> }

TitleFont == <<"T", "i", "t", "l", "e", "-", "S", "a", "n", "s">>

ScoreFonts == {Arial, ArialBold, TitleFont}

ScoreFlags == {0, 2^4}

ScoreBoxes == {<<72, 40, 300, 60>>, <<72, 300, 300, 314>>}

ScoreFontSizes == {12, 14, 16}

ScoreProfiles == {<<>>, <<10, 12>>}

ScoreSamples ==
    [ text : ScoreTexts, font_size : ScoreFontSizes, font_name : ScoreFonts,
      flags : ScoreFlags, bbox : ScoreBoxes, page_height : {800},
      sizes : ScoreProfiles ]

\* the call: what each step added, and the value returned
ScoredAs(added) == [added |-> added, confidence |-> Total(added)]

Scored(s) ==
    ScoredAs(Contributions(s.text, s.font_size, s.font_name, s.flags, s.bbox,
                           s.page_height, s.sizes))

\* the one signal that is present in new and absent in old, every other signal
\* adding what it added before; 0 when the change is not of that kind
SwitchedOn(old, new) ==
    IF \E k \in 1..Len(old) :
           /\ old[k] = Zero /\ new[k] # Zero
           /\ \A j \in (1..Len(old)) \ {k} : old[j] = new[j]
    THEN CHOOSE k \in 1..Len(old) : old[k] = Zero /\ new[k] # Zero
    ELSE 0

ScoreInit ==
    /\ sample \in ScoreSamples
    /\ score = Scored(sample)
    /\ switched = 0
    /\ before = Zero
    /\ font_sizes_seen = <<>>
    /\ pc = "idle"
    /\ n_pages = 0
    /\ page_num = 0
    /\ span_count = 0
    /\ outline = <<>>
    /\ last = NoCall
    /\ results = <<>>
    /\ text_in = <<>>
    /\ text_out = <<>>
    /\ doc = <<>>
    /\ title = <<>>
    /\ files = <<>>
    /\ file_num = 0
    /\ responses = <<>>
    /\ ref_sizes = <<>>
    /\ ref_outline = <<>>
    /\ tasks = <<>>
    /\ accesses = <<>>
    /\ call = <<>>
    /\ call_level = None

\* the scorer is called with the changed arguments
Rescored(new, s) ==
    /\ new # sample
    /\ sample' = new
    /\ score' = s
    /\ switched' = SwitchedOn(score.added, s.added)
    /\ before' = IF SwitchedOn(score.added, s.added) # 0 THEN score.confidence ELSE Zero
    /\ UNCHANGED <<font_sizes_seen, batchVars, serverVars, classifyVars,
                   textVars, titleVars, uploadVars>>

Rescore(new) == Rescored(new, Scored(new))

ScoreNext ==
    \/ \E t \in ScoreTexts : Rescore([sample EXCEPT !.text = t])
    \/ \E f \in ScoreFontSizes : Rescore([sample EXCEPT !.font_size = f])
    \/ \E n \in ScoreFonts : Rescore([sample EXCEPT !.font_name = n])
    \/ \E f \in ScoreFlags : Rescore([sample EXCEPT !.flags = f])
    \/ \E b \in ScoreBoxes : Rescore([sample EXCEPT !.bbox = b])
    \/ \E p \in ScoreProfiles : Rescore([sample EXCEPT !.sizes = p])

SpecScore == ScoreInit /\ [][ScoreNext]_vars

\* C6: the confidence returned lies in [0, 1] and is min(1.0, the sum, in the
\* order of the code, of what the signals added), where a signal that is
\* present added its weight, which is positive, and a signal that is absent
\* added 0.
C6_ClampedSum ==
    LET a == score.added
        s == sample
        total == IF s.sizes # <<>> THEN Sum(s.sizes) ELSE 12
        count == IF s.sizes # <<>> THEN Len(s.sizes) ELSE 1
        font == lower(s.font_name)
        present ==
            << 10 * s.font_size * count > 11 * total,
               (s.flags \div 16) % 2 = 1,
               Contains(font, <<"b", "o", "l", "d">>)
                   \/ Contains(font, <<"b", "l", "a", "c", "k">>),
               Contains(font, <<"h", "e", "a", "d", "i", "n", "g">>)
                   \/ Contains(font, <<"t", "i", "t", "l", "e">>),
               \E k \in 1..11 : heading_patterns(s.text)[k],
               \E k \in 1..Len(heading_keywords) :
                   Contains(lower(s.text), heading_keywords[k]),
               s.page_height <= 0 \/ 10 * s.bbox[2] < s.page_height,
               Len(strip(s.text)) \in 10..80,
               isupper(s.text) \/ istitle(s.text) >>
        weights ==
            << {F0_2, F0_3}, {F0_2}, {F0_15}, {F0_2}, {F0_3}, {F0_1}, {F0_1}, {F0_1},
               {F0_05, F0_1} >>
    IN  /\ FLe(Zero, score.confidence) /\ FLe(score.confidence, F1_0)
        /\ Len(a) = 9
        /\ \A k \in 1..9 : IF present[k] THEN a[k] \in weights[k] /\ FLt(Zero, a[k])
                                        ELSE a[k] = Zero
        /\ score.confidence =
               FMin(F1_0, FAdd(FAdd(FAdd(FAdd(FAdd(FAdd(FAdd(FAdd(a[1], a[2]), a[3]),
                                                        a[4]), a[5]), a[6]), a[7]), a[8]),
                               a[9]))

\* a call in which the sum passes 1.0 and the result is 1.0, with a signal
\* absent
C6_Witness ==
    /\ score.confidence = F1_0
    /\ FLt(F1_0, Accumulate(score.added, 9))
    /\ \E k \in 1..9 : score.added[k] = Zero

\* C7: when a change of the arguments switches one signal from absent to
\* present and leaves what every other signal adds as it was, the confidence
\* returned is not lower than before the change.
C7_Monotone ==
    switched # 0 => FLe(before, score.confidence)

\* a signal has been switched on above others and the confidence went up
C7_Witness ==
    /\ switched # 0
    /\ before # Zero
    /\ FLt(before, score.confidence)
    /\ \E k \in 1..9 : k > switched /\ score.added[k] # Zero

---------------------------------------------------------------------------
(* _classify_heading_level on its own: the arguments are drawn from        *)
(* ClassifyCalls, and one argument at a time is changed and the text       *)
(* classified again.                                                       *)

ClassifyTexts ==
    { <<"C", "h", "a", "p", "t", "e", "r", " ", "3", " ", "R", "e", "s", "u", "l", "t", "s">>,
      <<"C", "H", "A", "P", "T", "E", "R", " ", "4">>,
      <<"c", "h", "a", "p", "t", "e", "r", " ", "5">>,
      <<"S", "e", "c", "t", "i", "o", "n", " ", "2", " ", "S", "c", "o", "p", "e">>,
      <<"1", ".", " ", "I", "n", "t", "r", "o">>,
      <<"1", ".", "2", " ", "S", "c", "o", "p", "e">>,
      <<"1", ".", "2", ".", "3", " ", "D", "e", "t", "a", "i", "l">>,
      <<"1", ".", "2", ".", "3", ".", "4", " ", "D", "e", "e", "p">>,
      <<"1", ".", "I", "n", "t", "r", "o">>,
      <<"B", "u", "d", "g", "e", "t">> }

ClassifyFontSizes == {10, 12, 14, 16, 20}

\* 0.30000000000000004 is what 0.1 + 0.2 gives
ClassifyConfidences ==
    {F0_0, F0_3, FAdd(F0_1, F0_2), F0_4, FAdd(F0_4, F0_05), F0_5, FAdd(F0_5, F0_05), F1_0}

ClassifyProfiles == {<<>>, <<10>>, <<12, 12>>, <<10, 16>>}

ClassifyCalls ==
    [ text : ClassifyTexts, font_size : ClassifyFontSizes, flags : {0},
      confidence : ClassifyConfidences, sizes : ClassifyProfiles ]

Classified(c) == classify_heading_level(c.text, c.font_size, c.flags, c.confidence, c.sizes)

ClassifyInit ==
    /\ call \in ClassifyCalls
    /\ call_level = Classified(call)
    /\ font_sizes_seen = <<>>
    /\ pc = "idle"
    /\ n_pages = 0
    /\ page_num = 0
    /\ span_count = 0
    /\ outline = <<>>
    /\ last = NoCall
    /\ results = <<>>
    /\ text_in = <<>>
    /\ text_out = <<>>
    /\ doc = <<>>
    /\ title = <<>>
    /\ files = <<>>
    /\ file_num = 0
    /\ responses = <<>>
    /\ ref_sizes = <<>>
    /\ ref_outline = <<>>
    /\ tasks = <<>>
    /\ accesses = <<>>
    /\ sample = <<>>
    /\ score = <<>>
    /\ switched = 0
    /\ before = Zero

\* the classifier is called with the changed arguments
Reclassify(new) ==
    /\ new # call
    /\ call' = new
    /\ call_level' = Classified(new)
    /\ UNCHANGED <<font_sizes_seen, batchVars, serverVars, scoreVars,
                   textVars, titleVars, uploadVars>>

ClassifyNext ==
    \/ \E t \in ClassifyTexts : Reclassify([call EXCEPT !.text = t])
    \/ \E f \in ClassifyFontSizes : Reclassify([call EXCEPT !.font_size = f])
    \/ \E c \in ClassifyConfidences : Reclassify([call EXCEPT !.confidence = c])
    \/ \E p \in ClassifyProfiles : Reclassify([call EXCEPT !.sizes = p])

SpecClassify == ClassifyInit /\ [][ClassifyNext]_vars

\* C9: whatever the confidence, the font size and the profile are, the
\* classifier returns H1 for a text that starts with "Chapter <num>" or
\* "<num>. ", H2 for one that starts with "Section <num>" or "<num>.<num> ",
\* and H3 for one that starts with "<num>.<num>.<num> ".
C9_LexicalOverride ==
    LET t == call.text
        Digits(i, j) == i <= j /\ j <= Len(t) /\ \A k \in i..j : t[k] \in DigitChars
        Starts(w) == Len(t) >= Len(w) /\ SubSeq(t, 1, Len(w)) = w
        At(i, c) == i <= Len(t) /\ t[i] = c
        Word1(w) == Starts(w \o <<" ">>) /\ Digits(Len(w) + 2, Len(w) + 2)
        Num1 == \E n \in 1..Len(t) : Digits(1, n) /\ At(n + 1, ".") /\ At(n + 2, " ")
        Num2 == \E n \in 1..Len(t) : \E m \in (n + 2)..Len(t) :
                    /\ Digits(1, n) /\ At(n + 1, ".")
                    /\ Digits(n + 2, m) /\ At(m + 1, " ")
        Num3 == \E n \in 1..Len(t) : \E m \in (n + 2)..Len(t) : \E l \in (m + 2)..Len(t) :
                    /\ Digits(1, n) /\ At(n + 1, ".")
                    /\ Digits(n + 2, m) /\ At(m + 1, ".")
                    /\ Digits(m + 2, l) /\ At(l + 1, " ")
    IN  /\ (Word1(<<"C", "h", "a", "p", "t", "e", "r">>) \/ Num1) => call_level = "H1"
        /\ (Word1(<<"S", "e", "c", "t", "i", "o", "n">>) \/ Num2) => call_level = "H2"
        /\ Num3 => call_level = "H3"

\* "1.2 Scope" is H2 with a confidence of 0.0 and a font size of 10 under a
\* profile of <<10, 16>>
C9_Witness ==
    /\ call.text = <<"1", ".", "2", " ", "S", "c", "o", "p", "e">>
    /\ call.confidence = F0_0
    /\ call.font_size = 10
    /\ call.sizes = <<10, 16>>
    /\ call_level = "H2"

\* C10: when no pattern of the classifier matches, the level follows the
\* table: with h1 = max(avg * 1.4, 16), h2 = max(avg * 1.2, 14) and
\* h3 = max(avg * 1.1, 12), or 16, 14 and 12 for an empty profile,
\* font_size >= h1 and confidence > 0.5 give H1; otherwise font_size >= h2 and
\* confidence > 0.4 give H2; otherwise font_size >= h3 and confidence > 0.3
\* give H3; otherwise confidence > 0.5 gives H2, confidence > 0.4 gives H3, and
\* anything else gives no level.
C10_TierTable ==
    LET c == call.confidence
        size == FInt(call.font_size)
        avg == Average(call.sizes)
        h1 == IF call.sizes = <<>> THEN FInt(16) ELSE FMax(FMul(avg, F1_4), FInt(16))
        h2 == IF call.sizes = <<>> THEN FInt(14) ELSE FMax(FMul(avg, F1_2), FInt(14))
        h3 == IF call.sizes = <<>> THEN FInt(12) ELSE FMax(FMul(avg, F1_1), FInt(12))
        expected ==
            IF ~FLt(size, h1) /\ FLt(F0_5, c) THEN "H1"
            ELSE IF ~FLt(size, h2) /\ FLt(F0_4, c) THEN "H2"
            ELSE IF ~FLt(size, h3) /\ FLt(F0_3, c) THEN "H3"
            ELSE IF FLt(F0_5, c) THEN "H2"
            ELSE IF FLt(F0_4, c) THEN "H3"
            ELSE None
    IN  LexicalLevel(call.text) = None => call_level = expected

\* a text without a pattern, of size 20 under a profile of average 12, with a
\* confidence of exactly 0.5: not H1, but H2 by the second row
C10_Witness ==
    /\ LexicalLevel(call.text) = None
    /\ call.sizes = <<12, 12>>
    /\ call.font_size = 20
    /\ call.confidence = F0_5
    /\ call_level = "H2"

\* C22: for a text without a pattern of the classifier, with the confidence
\* and the font profile fixed, a larger font size never gives a lower-ranked
\* result than a smaller one (H1 above H2 above H3 above no level).
C22_TierMonotoneInSize ==
    [][ LET rank(l) == IF l = "H1" THEN 3 ELSE IF l = "H2" THEN 2
                       ELSE IF l = "H3" THEN 1 ELSE 0
        IN  ( /\ LexicalLevel(call.text) = None
              /\ call'.text = call.text
              /\ call'.confidence = call.confidence
              /\ call'.sizes = call.sizes
              /\ call'.font_size > call.font_size )
            => rank(call_level') >= rank(call_level) ]_vars

\* C24: the classifier returns H1 only for a text that starts with
\* "Chapter <num>" (written Chapter or CHAPTER) or "<num>. ", or for a font size of at least 16 together
\* with a confidence above 0.5; the bands that look at the confidence alone
\* never give H1, whatever the font profile holds.
C24_H1Justified ==
    LET t == call.text
        Digits(i, j) == i <= j /\ j <= Len(t) /\ \A k \in i..j : t[k] \in DigitChars
        At(i, c) == i <= Len(t) /\ t[i] = c
        ChapterNum == /\ Len(t) >= 9
                      /\ SubSeq(t, 1, 7) \in {Chapter, CHAPTER}
                      /\ t[8] = " "
                      /\ Digits(9, 9)
        Num1 == \E n \in 1..Len(t) : Digits(1, n) /\ At(n + 1, ".") /\ At(n + 2, " ")
    IN  call_level = "H1" =>
            \/ ChapterNum
            \/ Num1
            \/ call.font_size >= 16 /\ FLt(F0_5, call.confidence)

\* "Budget" of size 16 with a confidence of 0.55 under the profile <<10>> is H1
\* by its size
C24_Witness ==
    /\ call.text = <<"B", "u", "d", "g", "e", "t">>
    /\ call.font_size = 16
    /\ call.confidence = FAdd(F0_5, F0_05)
    /\ call.sizes = <<10>>
    /\ call_level = "H1"


---------------------------------------------------------------------------
(* The functions of one text on their own: _is_potential_heading,          *)
(* _clean_heading_text (once, and again on its own result) and the         *)
(* additions of _calculate_heading_confidence, for the text with a font of *)
(* the default size, no font name, no flags, mid-page, an empty profile.   *)

MaxTextLen == 4     \* length of the texts built from TextAlphabet
LongSlack == 2      \* the long texts have 200 - LongSlack .. 200 + LongSlack + 2 characters

TextAlphabet == {" ", "TAB", ".", ":", "1", "R"}

\* n times the character c
Pad(c, n) == [i \in 1..n |-> c]

\* one word of uppercase letters, alone or with whitespace around it
LongTexts ==
    {Pad("A", n) : n \in (200 - LongSlack)..(200 + LongSlack)}
        \cup {<<" ">> \o Pad("A", n) \o <<"TAB">> : n \in (200 - LongSlack)..(200 + LongSlack)}

\* texts that begin with a pattern of heading_patterns, some with several
LeadingTexts ==
    { <<"C", "h", "a", "p", "t", "e", "r", " ", "3">>,
      <<"s", "e", "c", "t", "i", "o", "n", " ", "2">>,
      <<"1", ".", " ", "I", "n", "t", "r", "o", "d", "u", "c", "t", "i", "o", "n">>,
      <<"1", ".", "2", " ", "S", "c", "o", "p", "e", ":">>,
      <<"1", ".", "2", ".", "3", " ", "D", "e", "t", "a", "i", "l">>,
      <<"I", "V", ".", " ", "P", "l", "a", "n">>,
      <<"I", ".", " ", "P", "l", "a", "n">>,
      <<"B", ".", " ", "P", "l", "a", "n">>,
      <<"b", ")", " ", "P", "l", "a", "n">>,
      <<"(", "1", ")", " ", "P", "l", "a", "n">>,
      <<"BULLET", " ", "P", "l", "a", "n">>,
      <<"a_circ", "EURO", "CENT", " ", "P", "l", "a", "n">>,
      <<"-", " ", "P", "l", "a", "n">>,
      <<"R", "e", "s", "u", "l", "t", "s", " ", ".">>,
      <<"P", "l", "a", "n">> }

TextInputs ==
    UNION {[1..n -> TextAlphabet] : n \in 0..MaxTextLen} \cup LongTexts \cup LeadingTexts

\* the calls made with the text
TextCalls(t, cleaned) ==
    [potential |-> is_potential_heading(t),
     cleaned |-> cleaned,
     recleaned |-> clean_heading_text(cleaned),
     added |-> Contributions(t, 12, <<>>, 0, <<0, 400, 0, 0>>, 800, <<>>)]

TextOf(t) == TextCalls(t, clean_heading_text(t))

TextInit ==
    /\ text_in \in TextInputs
    /\ text_out = TextOf(text_in)
    /\ font_sizes_seen = <<>>
    /\ pc = "idle"
    /\ n_pages = 0
    /\ page_num = 0
    /\ span_count = 0
    /\ outline = <<>>
    /\ last = NoCall
    /\ results = <<>>
    /\ ref_sizes = <<>>
    /\ ref_outline = <<>>
    /\ tasks = <<>>
    /\ accesses = <<>>
    /\ sample = <<>>
    /\ score = <<>>
    /\ switched = 0
    /\ before = Zero
    /\ call = <<>>
    /\ call_level = None
    /\ doc = <<>>
    /\ title = <<>>
    /\ files = <<>>
    /\ file_num = 0
    /\ responses = <<>>

\* the functions are called with another text
Retext(new) ==
    /\ text_in' = new
    /\ text_out' = TextOf(new)
    /\ UNCHANGED <<font_sizes_seen, batchVars, serverVars, scoreVars, classifyVars,
                   titleVars, uploadVars>>

TextNext ==
    \/ \E c \in TextAlphabet : Len(text_in) < MaxTextLen /\ Retext(Append(text_in, c))
    \/ \E c \in TextAlphabet : Len(text_in) < MaxTextLen /\ Retext(<<c>> \o text_in)
    \/ Len(text_in) >= 200 - LongSlack /\ Len(text_in) < 200 + LongSlack + 2
           /\ Retext(Append(text_in, "A"))
    \/ text_in # <<>> /\ Len(text_in) < 200 - LongSlack /\ Retext(Tail(text_in))

SpecText == TextInit /\ [][TextNext]_vars

\* C11 as stated: a text of exactly 200 characters after trimming, of at most
\* 20 words and not starting with a lowercase letter, is rejected by the
\* prefilter.
C11_Rejects200 ==
    (Len(strip(text_in)) = 200 /\ WordCount(text_in) <= 20 /\ text_in[1] \notin LowerChars)
        => ~text_out.potential

\* C11, amended: the prefilter's upper bound is inclusive.  A text of at most
\* 20 words that does not start with a lowercase letter is accepted exactly
\* when its trimmed length is from 3 to 200: 200 characters are accepted, 201
\* are the shortest text rejected for its length.
C11_Rejects201 ==
    (text_in # <<>> /\ WordCount(text_in) <= 20 /\ text_in[1] \notin LowerChars)
        => (text_out.potential <=> Len(strip(text_in)) \in 3..200)

\* a text of 200 characters after trimming, and longer before, was accepted
C11_Witness ==
    /\ Len(strip(text_in)) = 200
    /\ Len(text_in) > 200
    /\ text_out.potential


\* C12: normalizing a normalized text changes nothing:
\* clean(clean(x)) = clean(x) for every text x.
C12_CleanIdempotent ==
    text_out.recleaned = text_out.cleaned

C20_EveryLeadingPattern ==
    LET leading ==
            \/ Len(text_in) >= 2 /\ text_in[1] = "BULLET" /\ text_in[2] \in {" ", "TAB", "NL"}
            \/ Len(text_in) >= 2 /\ text_in[1] = "-" /\ text_in[2] \in {" ", "TAB", "NL"}
            \/ text_in \in (LeadingTexts \
                   { <<"R", "e", "s", "u", "l", "t", "s", " ", ".">>,
                     <<"P", "l", "a", "n">>,
                     <<"a_circ", "EURO", "CENT", " ", "P", "l", "a", "n">> })
    IN  leading => text_out.added[5] = F0_3


---------------------------------------------------------------------------
(* PDFExtractor._extract_title and extract_structure on one document, with *)
(* an extractor constructed for it.  A document is its metadata, its page  *)
(* count, the height of its first page and the spans of the text blocks of *)
(* that page in reading order, each with the top of its line (line_y).     *)

MaxTitleSpans == 2  \* spans on the first page

UntitledDocument ==
    <<"U", "n", "t", "i", "t", "l", "e", "d", " ", "D", "o", "c", "u", "m", "e", "n", "t">>

\* a variant of metadata_title that takes a title of 200 characters too
metadata_title_upto_200(metadata) ==
    IF Len(strip(Get(metadata, "title", <<>>))) <= 200
    THEN strip(Get(metadata, "title", <<>>)) ELSE <<>>

\* metadata['title'].strip() if there is a title and it is shorter than 200
\* characters; the empty text otherwise (nothing is returned for it)
metadata_title(metadata) ==
    IF Get(metadata, "title", <<>>) # <<>> /\ Len(strip(Get(metadata, "title", <<>>))) < 200
    THEN strip(Get(metadata, "title", <<>>)) ELSE <<>>

\* a variant of title_candidates that takes a font size of 12 too
title_candidates_from_12(d) ==
    {i \in 1..Len(d.spans) :
        /\ FLt(FInt(d.spans[i].line_y), FQuot(d.height, 3))
        /\ Len(strip(Get(d.spans[i], "text", <<>>))) > 5
        /\ Get(d.spans[i], "size", 0) >= 12}

\* the spans appended to title_candidates: line_y < first_page.rect.height / 3,
\* and text and len(text) > 5 and font_size > 12
title_candidates(d) ==
    {i \in 1..Len(d.spans) :
        /\ FLt(FInt(d.spans[i].line_y), FQuot(d.height, 3))
        /\ Len(strip(Get(d.spans[i], "text", <<>>))) > 5
        /\ Get(d.spans[i], "size", 0) > 12}

\* title_candidates.sort(key=lambda x: (-x["size"], x["y"]))[0]: the sort is
\* stable, so among equal keys the span met first
first_candidate(d, candidates) ==
    CHOOSE i \in candidates : \A j \in candidates \ {i} :
        \/ Get(d.spans[i], "size", 0) > Get(d.spans[j], "size", 0)
        \/ /\ Get(d.spans[i], "size", 0) = Get(d.spans[j], "size", 0)
           /\ \/ d.spans[i].line_y < d.spans[j].line_y
              \/ d.spans[i].line_y = d.spans[j].line_y /\ i < j

\* a variant of page_title that returns the empty text when nothing is found
page_title_or_nothing(d, candidates) ==
    IF d.n_pages > 0 /\ candidates # {}
    THEN strip(CollapseFrom(strip(d.spans[first_candidate(d, candidates)].text), 1))
    ELSE <<>>

\* the title from the first page, or "Untitled Document"
page_title(d, candidates) ==
    IF d.n_pages > 0 /\ candidates # {}
    THEN strip(CollapseFrom(strip(d.spans[first_candidate(d, candidates)].text), 1))
    ELSE UntitledDocument

extract_title(d) ==
    IF metadata_title(d.metadata) # <<>> THEN metadata_title(d.metadata)
    ELSE page_title(d, title_candidates(d))

\* _extract_outline over the spans of the page, from span i on
RECURSIVE extract_outline(_, _, _, _)
outline_with(d, i, r, out) ==
    extract_outline(d, i + 1, r.seen, Extended(out, r.heading, 1))

extract_outline(d, i, seen, out) ==
    IF d.n_pages = 0 \/ i > Len(d.spans) THEN out
    ELSE IF strip(Get(d.spans[i], "text", <<>>)) = <<>>
         THEN extract_outline(d, i + 1, seen, out)
         ELSE outline_with(d, i,
                  analyze_text(strip(Get(d.spans[i], "text", <<>>)),
                               Get(d.spans[i], "size", 12), Get(d.spans[i], "font", <<>>),
                               Get(d.spans[i], "flags", 0),
                               Get(d.spans[i], "bbox", <<0, 0, 0, 0>>), d.height, seen),
                  out)

\* result = {"title": title, "outline": outline}
extract_structure(d) ==
    [title |-> extract_title(d), outline |-> extract_outline(d, 1, <<>>, <<>>)]

AnnualReport ==
    <<"A", "n", "n", "u", "a", "l", " ", "R", "e", "p", "o", "r", "t", " ", "2", "0", "2", "4">>

\* metadata: none, without a title, with an empty or blank title, with a title
\* to trim, and with titles of 199 and 200 characters after trimming
TitleMetadata ==
    { <<>>, [author |-> <<"A">>], [title |-> <<>>], [title |-> <<" ", "TAB">>],
      [title |-> <<" ">> \o AnnualReport \o <<" ">>],
      [title |-> <<" ", " ">> \o Pad("T", 199)], [title |-> Pad("T", 200) \o <<" ">>] }

\* first-page spans: on a page 800 high the top third ends below y = 267
TitleSpans ==
    { [text |-> <<"B", "U", "D", "G", "E", "T", " ", "O", "V", "E", "R", "V", "I", "E", "W">>,
       size |-> 24, line_y |-> 40, bbox |-> <<72, 40, 300, 64>>],
      [text |-> <<"Q", "3", " ", "r", "e", "s", "u", "l", "t", "s">>,
       size |-> 11, line_y |-> 300, bbox |-> <<72, 300, 300, 311>>],
      [text |-> <<" ", "F", "i", "s", "c", "a", "l", " ", "TAB", "P", "l", "a", "n", " ">>,
       size |-> 24, line_y |-> 30, bbox |-> <<72, 30, 300, 54>>],
      [text |-> <<"I", "n", "t", "r", "o">>,
       size |-> 30, line_y |-> 10, bbox |-> <<72, 10, 300, 40>>],
      [text |-> <<"C", "o", "n", "t", "e", "n", "t", "s">>,
       size |-> 12, line_y |-> 50, bbox |-> <<72, 50, 300, 62>>],
      [text |-> <<"S", "u", "m", "m", "a", "r", "y", " ", "N", "o", "t", "e">>,
       size |-> 13, line_y |-> 266, bbox |-> <<200, 270, 300, 283>>],
      [text |-> <<"C", "l", "o", "s", "i", "n", "g", " ", "N", "o", "t", "e">>,
       size |-> 30, line_y |-> 267, bbox |-> <<72, 267, 300, 297>>],
      [text |-> <<"N", "o", " ", "S", "i", "z", "e", " ", "H", "e", "r", "e">>,
       line_y |-> 20, bbox |-> <<72, 20, 300, 30>>] }

TitleInit ==
    /\ doc \in [metadata : TitleMetadata, n_pages : {0, 1}, height : {800}, spans : {<<>>}]
    /\ title = extract_structure(doc)
    /\ font_sizes_seen = <<>>
    /\ pc = "idle"
    /\ n_pages = 0
    /\ page_num = 0
    /\ span_count = 0
    /\ outline = <<>>
    /\ last = NoCall
    /\ results = <<>>
    /\ ref_sizes = <<>>
    /\ ref_outline = <<>>
    /\ tasks = <<>>
    /\ accesses = <<>>
    /\ sample = <<>>
    /\ score = <<>>
    /\ switched = 0
    /\ before = Zero
    /\ call = <<>>
    /\ call_level = None
    /\ text_in = <<>>
    /\ text_out = <<>>
    /\ files = <<>>
    /\ file_num = 0
    /\ responses = <<>>

\* extract_structure is called on another document
Retitle(new) ==
    /\ doc' = new
    /\ title' = extract_structure(new)
    /\ UNCHANGED <<font_sizes_seen, batchVars, serverVars, scoreVars, classifyVars,
                   textVars, uploadVars>>

TitleNext ==
    \/ \E m \in TitleMetadata : m # doc.metadata /\ Retitle([doc EXCEPT !.metadata = m])
    \/ \E span \in TitleSpans :
           /\ doc.n_pages > 0 /\ Len(doc.spans) < MaxTitleSpans
           /\ Retitle([doc EXCEPT !.spans = Append(@, span)])
    \/ doc.spans # <<>> /\ Retitle([doc EXCEPT !.spans = Tail(@)])

SpecTitle == TitleInit /\ [][TitleNext]_vars


\* C14: a metadata title that is not empty after trimming and is then shorter
\* than 200 characters is the title, trimmed, whatever the first page holds;
\* a metadata title that is empty after trimming or then has 200 characters
\* or more is not the title.
C14_MetadataTitleFirst ==
    LET trimmed == strip(Get(doc.metadata, "title", <<>>))
    IN  IF trimmed # <<>> /\ Len(trimmed) < 200
        THEN title.title = trimmed
        ELSE title.title # trimmed

\* the metadata title, trimmed, is the title of a document whose first page
\* has a span that would be the title without it
C14_Witness ==
    /\ title.title = AnnualReport
    /\ doc.metadata.title # AnnualReport
    /\ Len(doc.spans) = 2
    /\ title_candidates(doc) # {}

\* C15 as stated: without a usable metadata title the title is the collapsed
\* text of a span of the largest font size, and among those of the smallest
\* y0, among the first-page spans whose own y0 (bbox[1]) is less than a third
\* of the page height, whose trimmed text is longer than 5 and whose font size
\* is more than 12; no other span is chosen.
C15_TitleBySpanTop ==
    LET sp == doc.spans
        size(i) == IF "size" \in DOMAIN sp[i] THEN sp[i].size ELSE 0
        among == {i \in 1..Len(sp) :
                     /\ 3 * sp[i].bbox[2] < doc.height
                     /\ Len(strip(sp[i].text)) > 5
                     /\ size(i) > 12}
        best == {i \in among : \A j \in among :
                    \/ size(i) > size(j)
                    \/ size(i) = size(j) /\ sp[i].bbox[2] <= sp[j].bbox[2]}
    IN  (metadata_title(doc.metadata) = <<>> /\ doc.n_pages > 0) =>
            IF among = {} THEN title.title = UntitledDocument
            ELSE \E i \in best : title.title = strip(CollapseFrom(strip(sp[i].text), 1))

\* C15, amended: the vertical position that is compared with a third of the
\* page height, and that breaks ties on the font size, is the top of the line
\* the span is in (the line's bbox[1]), not the span's own y0.  Without a
\* usable metadata title the title is the collapsed text of a span of the
\* largest font size, and among those of the smallest line top, among the
\* first-page spans whose line top is less than a third of the page height,
\* whose trimmed text is longer than 5 and whose font size is more than 12; no
\* other span is chosen.
C15_TitleByLineTop ==
    LET sp == doc.spans
        size(i) == IF "size" \in DOMAIN sp[i] THEN sp[i].size ELSE 0
        among == {i \in 1..Len(sp) :
                     /\ 3 * sp[i].line_y < doc.height
                     /\ Len(strip(sp[i].text)) > 5
                     /\ size(i) > 12}
        best == {i \in among : \A j \in among :
                    \/ size(i) > size(j)
                    \/ size(i) = size(j) /\ sp[i].line_y <= sp[j].line_y}
    IN  (metadata_title(doc.metadata) = <<>> /\ doc.n_pages > 0) =>
            IF among = {} THEN title.title = UntitledDocument
            ELSE \E i \in best : title.title = strip(CollapseFrom(strip(sp[i].text), 1))

\* of two spans of the largest font size the second, which is higher on the
\* page, gave the title, with its whitespace collapsed
C15_Witness ==
    /\ metadata_title(doc.metadata) = <<>>
    /\ Len(doc.spans) = 2
    /\ Get(doc.spans[1], "size", 0) = 24 /\ Get(doc.spans[2], "size", 0) = 24
    /\ doc.spans[2].line_y < doc.spans[1].line_y
    /\ title.title = <<"F", "i", "s", "c", "a", "l", " ", "P", "l", "a", "n">>

\* C16: the title is "Untitled Document" exactly when there is no usable
\* metadata title and no first-page span is a title candidate (there is no
\* page, no span, or no span in the top third with more than 5 characters and
\* a font size above 12); a document without pages or without spans has an
\* empty outline.
C16_UntitledFallback ==
    LET trimmed == strip(Get(doc.metadata, "title", <<>>))
        sp == doc.spans
        candidate == \E i \in 1..Len(sp) :
                        /\ 3 * sp[i].line_y < doc.height
                        /\ Len(strip(sp[i].text)) > 5
                        /\ "size" \in DOMAIN sp[i] /\ sp[i].size > 12
    IN  /\ title.title = UntitledDocument <=>
               /\ trimmed = <<>> \/ Len(trimmed) >= 200
               /\ doc.n_pages = 0 \/ ~candidate
        /\ (doc.n_pages = 0 \/ sp = <<>>) => title.outline = <<>>

\* a document of one page without spans and without metadata
C16_Witness ==
    /\ doc.metadata = <<>>
    /\ doc.n_pages = 1
    /\ doc.spans = <<>>
    /\ title = [title |-> UntitledDocument, outline |-> <<>>]


---------------------------------------------------------------------------
(* _extract_outline on one page whose spans come in any order, some of     *)
(* them without a size, a font, flags and a bbox, or with a size of 0.     *)

MaxListed == 4      \* spans on the page

Overview == <<"O", "v", "e", "r", "v", "i", "e", "w">>
ZeroSize == <<"Z", "e", "r", "o", " ", "S", "i", "z", "e">>
BareSpan == <<"B", "a", "r", "e", " ", "S", "p", "a", "n">>

ListedSpans ==
    { [text |-> Overview, size |-> 20, font |-> Arial, flags |-> 0,
       bbox |-> <<72, 400, 300, 420>>],
      [text |-> <<"b", "o", "d", "y", " ", "t", "e", "x", "t">>,
       size |-> 10, font |-> Arial, flags |-> 0, bbox |-> <<72, 500, 300, 510>>],
      [text |-> ZeroSize, size |-> 0, font |-> Arial, flags |-> 0,
       bbox |-> <<72, 600, 300, 612>>],
      [text |-> BareSpan] }

\* the loop body of _extract_outline for the next span of the page
AnalyzeListed(span) ==
    /\ pc = "pages"
    /\ page_num < max_pages(n_pages)
    /\ span_count < MaxListed
    /\ span_count' = span_count + 1
    /\ Analyze(strip(Get(span, "text", <<>>)), span)
    /\ UNCHANGED <<pc, n_pages, page_num, results, serverVars, scoreVars, classifyVars,
                   textVars, titleVars, uploadVars>>

ListedNext ==
    \/ Len(results) = 0 /\ OpenDocument(1)
    \/ \E span \in ListedSpans : AnalyzeListed(span)
    \/ NextPage
    \/ CloseDocument

SpecListed == BatchInit /\ [][ListedNext]_vars

\* C17: a span's font size is in the list before the span is scored, so the
\* order of the spans matters.  The span "Overview" of size 20 (keyword 0.1,
\* title case 0.05) scored as the first span of a document has the average 20
\* and gets no font-size bonus; scored after three spans of size 10 it has the
\* average 12.5 and gets the bonus of 0.3.
C17_OrderSensitive ==
    (last # NoCall /\ last.text = Overview) =>
        /\ font_sizes_seen = Append(last.profile, 20)
        /\ last.profile = <<>> =>
               last.confidence = FAdd(FAdd(F0_0, F0_1), F0_05)
        /\ last.profile = <<10, 10, 10>> =>
               last.confidence = FAdd(FAdd(FAdd(F0_0, F0_3), F0_1), F0_05)

\* the span of size 20 was scored after three spans of size 10, with the bonus
C17_Witness ==
    /\ last.text = Overview
    /\ last.profile = <<10, 10, 10>>
    /\ font_sizes_seen = <<10, 10, 10, 20>>
    /\ FLt(F0_3, last.confidence)

\* C19: a span whose font size is absent or zero is recorded, scored and
\* classified with the font size 12.
C19_SizeDefaultsTo12 ==
    (last # NoCall /\ last.text \in {ZeroSize, BareSpan}) =>
        /\ last.font_size = 12
        /\ font_sizes_seen = Append(last.profile, 12)


---------------------------------------------------------------------------
(* upload_files (server.py): the per-file loop of one /upload request.     *)
(* The uploaded documents that can be read have one page without text, so  *)
(* their extraction leaves the extractor's font-size list as it is.        *)

MaxFiles == 3       \* files in a request

\* an uploaded file: its name and whether fitz.open can read it
UploadedFiles ==
    { [filename |-> <<"a", ".", "p", "d", "f">>, readable |-> TRUE],
      [filename |-> <<"B", ".", "P", "D", "F">>, readable |-> FALSE],
      [filename |-> <<"n", ".", "t", "x", "t">>, readable |-> TRUE],
      [filename |-> <<>>, readable |-> TRUE] }

\* file.filename.lower().endswith('.pdf')
is_pdf(filename) ==
    /\ Len(filename) >= 4
    /\ SubSeq(lower(filename), Len(filename) - 3, Len(filename)) = <<".", "p", "d", "f">>

\* extract_structure of a readable upload: title, outline, and the summary of
\* a document without text
uploaded_structure ==
    [title |-> extract_title([metadata |-> <<>>, n_pages |-> 1, height |-> 800,
                              spans |-> <<>>]),
     outline |-> <<>>,
     summary |-> "Summary not available (no content extracted)"]

UploadInit ==
    /\ files \in UNION {[1..n -> UploadedFiles] : n \in 1..MaxFiles}
    /\ file_num = 0
    /\ responses = [results |-> <<>>, sent |-> FALSE]
    /\ font_sizes_seen = <<>>
    /\ pc = "idle"
    /\ n_pages = 0
    /\ page_num = 0
    /\ span_count = 0
    /\ outline = <<>>
    /\ last = NoCall
    /\ results = <<>>
    /\ ref_sizes = <<>>
    /\ ref_outline = <<>>
    /\ tasks = <<>>
    /\ accesses = <<>>
    /\ sample = <<>>
    /\ score = <<>>
    /\ switched = 0
    /\ before = Zero
    /\ call = <<>>
    /\ call_level = None
    /\ text_in = <<>>
    /\ text_out = <<>>
    /\ doc = <<>>
    /\ title = <<>>

\* one pass of the loop over the files, ending with what it appends
Uploaded(appended) ==
    /\ ~responses.sent
    /\ file_num < Len(files)
    /\ file_num' = file_num + 1
    /\ responses' = [responses EXCEPT !.results = @ \o appended]
    /\ UNCHANGED <<font_sizes_seen, files, batchVars, serverVars, scoreVars, classifyVars,
                   textVars, titleVars>>

\* if file.filename == '': continue
SkipUnnamed ==
    /\ file_num < Len(files)
    /\ files[file_num + 1].filename = <<>>
    /\ Uploaded(<<>>)

\* not a .pdf name: {'filename', 'error': 'File is not a PDF'}
RejectOther ==
    /\ file_num < Len(files)
    /\ files[file_num + 1].filename # <<>>
    /\ ~is_pdf(files[file_num + 1].filename)
    /\ Uploaded(<<[filename |-> files[file_num + 1].filename,
                   error |-> "File is not a PDF"]>>)

\* extractor.extract_structure returns: {'filename', 'data': result}
ExtractUpload ==
    /\ file_num < Len(files)
    /\ is_pdf(files[file_num + 1].filename)
    /\ files[file_num + 1].readable
    /\ Uploaded(<<[filename |-> files[file_num + 1].filename,
                   data |-> uploaded_structure]>>)

\* extractor.extract_structure raises: {'filename', 'error': str(e)}
ExtractUploadFails ==
    /\ file_num < Len(files)
    /\ is_pdf(files[file_num + 1].filename)
    /\ ~files[file_num + 1].readable
    /\ Uploaded(<<[filename |-> files[file_num + 1].filename,
                   error |-> "Failed to process PDF"]>>)

\* return jsonify({'results': results})
SendResults ==
    /\ ~responses.sent
    /\ file_num = Len(files)
    /\ responses' = [responses EXCEPT !.sent = TRUE]
    /\ UNCHANGED <<font_sizes_seen, files, file_num, batchVars, serverVars, scoreVars,
                   classifyVars, textVars, titleVars>>

UploadNext ==
    \/ SkipUnnamed
    \/ RejectOther
    \/ ExtractUpload
    \/ ExtractUploadFails
    \/ SendResults

SpecUpload == UploadInit /\ [][UploadNext]_vars

\* C18, for the upload server: a document whose extraction fails gets a result
\* with the placeholder title, an empty outline and an error message; the loop
\* goes on, and every named file of the request has its result when the
\* response is sent.
C18_StructuredErrorResult ==
    /\ \A i \in 1..Len(responses.results) :
           ("error" \in DOMAIN responses.results[i] /\ is_pdf(responses.results[i].filename)) =>
               /\ {"title", "outline", "error"} \subseteq DOMAIN responses.results[i]
               /\ responses.results[i].title = "Error extracting title"
               /\ responses.results[i].outline = <<>>
    /\ responses.sent =>
           Len(responses.results) =
               Cardinality({i \in 1..Len(files) : files[i].filename # <<>>})


---------------------------------------------------------------------------
(* _extract_outline on one page whose spans start with the classifier's    *)
(* patterns, in a small plain font in the middle of the page, next to a    *)
(* very large span that raises the average and to spans that end in        *)
(* punctuation.                                                            *)

MaxGated == 3       \* spans on the page

GatedSpans ==
    { [text |-> <<"C", "h", "a", "p", "t", "e", "r", " ", "3">>,
       size |-> 8, font |-> Arial, flags |-> 0, bbox |-> <<72, 400, 300, 408>>],
      [text |-> <<"S", "e", "c", "t", "i", "o", "n", " ", "2">>,
       size |-> 8, font |-> Arial, flags |-> 0, bbox |-> <<72, 400, 300, 408>>],
      [text |-> <<"1", ".", " ", "i", "n", "t", "r", "o">>,
       size |-> 8, font |-> Arial, flags |-> 0, bbox |-> <<72, 400, 300, 408>>],
      [text |-> <<"1", ".", "2", " ", "s", "c", "o", "p", "e">>,
       size |-> 8, font |-> Arial, flags |-> 0, bbox |-> <<72, 400, 300, 408>>],
      [text |-> <<"1", ".", "2", ".", "3", " ", "d", "e", "t", "a", "i", "l">>,
       size |-> 8, font |-> Arial, flags |-> 0, bbox |-> <<72, 400, 300, 408>>],
      [text |-> <<"s", "e", "c", "t", "i", "o", "n", " ", "2">>,
       size |-> 8, font |-> Arial, flags |-> 0, bbox |-> <<72, 400, 300, 408>>],
      [text |-> <<"B", "u", "d", "g", "e", "t">>,
       size |-> 40, font |-> Arial, flags |-> 0, bbox |-> <<72, 400, 300, 440>>],
      [text |-> <<"R", "e", "s", "u", "l", "t", "s", " ", ".">>,
       size |-> 12, font |-> ArialBold, flags |-> 16, bbox |-> <<72, 400, 300, 412>>],
      [text |-> <<".", ".", ".">>,
       size |-> 30, font |-> ArialBold, flags |-> 16, bbox |-> <<72, 40, 300, 70>>] }

\* the loop body of _extract_outline for the next span of the page
AnalyzeGated(span) ==
    /\ pc = "pages"
    /\ page_num < max_pages(n_pages)
    /\ span_count < MaxGated
    /\ span_count' = span_count + 1
    /\ Analyze(strip(Get(span, "text", <<>>)), span)
    /\ UNCHANGED <<pc, n_pages, page_num, results, serverVars, scoreVars, classifyVars,
                   textVars, titleVars, uploadVars>>

GatedNext ==
    \/ Len(results) = 0 /\ OpenDocument(1)
    \/ \E span \in GatedSpans : AnalyzeGated(span)
    \/ NextPage
    \/ CloseDocument

SpecGated == BatchInit /\ [][GatedNext]_vars

\* C21: a span that passes the prefilter and whose text starts with
\* "Chapter <num>", "Section <num>", "<num>. ", "<num>.<num> " or
\* "<num>.<num>.<num> " has a confidence of at least 0.3, passes the gate and
\* is appended to the outline with the level of its pattern, whatever its
\* font size, its style, its position and the font sizes seen before it.
C21_OverrideNeverGated ==
    LET t == last.text
        Digits(i, j) == i <= j /\ j <= Len(t) /\ \A k \in i..j : t[k] \in DigitChars
        Starts(w) == Len(t) >= Len(w) /\ SubSeq(t, 1, Len(w)) = w
        At(i, c) == i <= Len(t) /\ t[i] = c
        Word1(w) == Starts(w \o <<" ">>) /\ Digits(Len(w) + 2, Len(w) + 2)
        Num1 == \E n \in 1..Len(t) : Digits(1, n) /\ At(n + 1, ".") /\ At(n + 2, " ")
        Num2 == \E n \in 1..Len(t) : \E m \in (n + 2)..Len(t) :
                    /\ Digits(1, n) /\ At(n + 1, ".")
                    /\ Digits(n + 2, m) /\ At(m + 1, " ")
        Num3 == \E n \in 1..Len(t) : \E m \in (n + 2)..Len(t) : \E l \in (m + 2)..Len(t) :
                    /\ Digits(1, n) /\ At(n + 1, ".")
                    /\ Digits(n + 2, m) /\ At(m + 1, ".")
                    /\ Digits(m + 2, l) /\ At(l + 1, " ")
        override == IF Word1(<<"C", "h", "a", "p", "t", "e", "r">>) \/ Num1 THEN "H1"
                    ELSE IF Word1(<<"S", "e", "c", "t", "i", "o", "n">>) \/ Num2 THEN "H2"
                    ELSE IF Num3 THEN "H3"
                    ELSE None
    IN  (last # NoCall /\ last.scored /\ override # None) =>
            /\ ~FLt(last.confidence, F0_3)
            /\ last.classified
            /\ outline # <<>>
            /\ outline[Len(outline)].level = override
            /\ outline[Len(outline)].page = last.page
            /\ outline[Len(outline)].text = last.heading.text

\* "1.2 scope" in a plain font of size 8 in the middle of the page, after two
\* spans of size 40: the pattern is its only signal, its confidence is exactly
\* 0.3 and it is the third entry of the outline, as H2
C21_Witness ==
    /\ last.text = <<"1", ".", "2", " ", "s", "c", "o", "p", "e">>
    /\ last.profile = <<40, 40>>
    /\ last.confidence = F0_3
    /\ outline # <<>>
    /\ outline[Len(outline)] = [level |-> "H2", text |-> last.text, page |-> 1]


\* C23: every entry of the outline has a text that is not empty and that
\* neither starts nor ends with whitespace.
C23_EntryTextTrimmed ==
    \A i \in 1..Len(outline) :
        /\ outline[i].text # <<>>
        /\ outline[i].text[1] \notin SpaceChars
        /\ outline[i].text[Len(outline[i].text)] \notin SpaceChars

=============================================================================
